---------------------------- MODULE Spec2Model ----------------------------
(***************************************************************************)
(* A model of saltbox-facts (src/src/main.rs): the IPv6 capability probe,  *)
(* the per-family race of HTTP sources (get_ip / fetch_ip_from_url), the   *)
(* join of the IP resolution with the local-file lookups, and the output.  *)
(*                                                                         *)
(* Text is modelled as a sequence of tokens.  Where the code parses text   *)
(* (trim, validate_ip, lines, split_whitespace) every token is a single    *)
(* character; the fixed pieces of a format!() are kept as one token each.  *)
(***************************************************************************)
EXTENDS Integers, Sequences, FiniteSets, TLC

(***************************************************************************)
(* Bounds of the model.                                                    *)
(***************************************************************************)
\* longest source list handed to get_ip in SpecRace
MaxSources == 2
\* most lines of an interface table in SpecProbe
MaxLines == 2
\* most fields of one line of an interface table in SpecProbe
MaxFields == 7
\* most keys of an object handed to sort_json_value in SpecJson
MaxKeys == 2
\* most blanks before and after a text handed to validate_ip in SpecValidate
MaxPad == 1

(***************************************************************************)
(* Program constants.                                                      *)
(***************************************************************************)
TIMEOUT == 3
IPV4_URLS == <<"https://ipify.saltbox.dev", "https://ipv4.icanhazip.com">>
IPV6_URLS == <<"https://ipify6.saltbox.dev", "https://ipv6.icanhazip.com">>
UNKNOWN_ERRORS == <<"All requests failed with unknown errors">>

Families == {"v4", "v6"}
\* the is_ipv6 argument of get_ip / fetch_ip_from_url / validate_ip
IsIpv6(f) == f = "v6"

\* Option<T>
None == [some |-> FALSE]
Some(x) == [some |-> TRUE, val |-> x]

(***************************************************************************)
(* Characters.                                                             *)
(***************************************************************************)
Whitespace == {" ", "\t", "\n", "\r"}
DigitsLower == <<"0", "1", "2", "3", "4", "5", "6", "7", "8", "9",
                 "a", "b", "c", "d", "e", "f">>
DigitsUpper == <<"0", "1", "2", "3", "4", "5", "6", "7", "8", "9",
                 "A", "B", "C", "D", "E", "F">>

\* char::to_digit(radix): the digit's value, or -1 for None
ToDigit(c, radix) ==
    IF \E i \in 1..radix : DigitsLower[i] = c \/ DigitsUpper[i] = c
    THEN (CHOOSE i \in 1..radix : DigitsLower[i] = c \/ DigitsUpper[i] = c) - 1
    ELSE -1

(***************************************************************************)
(* str::trim: drop the leading and the trailing whitespace.                *)
(***************************************************************************)
RECURSIVE TrimStart(_)
TrimStart(s) ==
    IF s # <<>> /\ Head(s) \in Whitespace THEN TrimStart(Tail(s)) ELSE s

RECURSIVE TrimEnd(_)
TrimEnd(s) ==
    IF s # <<>> /\ s[Len(s)] \in Whitespace
    THEN TrimEnd(SubSeq(s, 1, Len(s) - 1))
    ELSE s

Trim(s) == TrimEnd(TrimStart(s))

(***************************************************************************)
(* The address parsers behind validate_ip (str::parse::<Ipv4Addr> and      *)
(* str::parse::<Ipv6Addr>).  A parser takes the text and the position of   *)
(* the next character and gives the position after what it read, or 0 when *)
(* it reads nothing (None; the position is then left where it was).        *)
(***************************************************************************)
ReadGivenChar(s, pos, c) ==
    IF pos <= Len(s) /\ s[pos] = c THEN pos + 1 ELSE 0

\* the digit loop of read_number: the position after the digits, 0 when
\* there are more than maxDigits of them
RECURSIVE ReadDigits(_, _, _, _, _)
ReadDigits(s, pos, radix, count, maxDigits) ==
    IF pos <= Len(s) /\ ToDigit(s[pos], radix) >= 0
    THEN IF count + 1 > maxDigits
         THEN 0
         ELSE ReadDigits(s, pos + 1, radix, count + 1, maxDigits)
    ELSE pos

\* the value of the digits s[from .. to-1]
RECURSIVE DigitsValue(_, _, _, _)
DigitsValue(s, from, to, radix) ==
    IF from >= to THEN 0
    ELSE DigitsValue(s, from, to - 1, radix) * radix + ToDigit(s[to - 1], radix)

\* read_number(radix, Some(maxDigits), allowZeroPrefix) into an integer type
\* whose largest value is maxVal
ReadNumber(s, pos, radix, maxDigits, allowZeroPrefix, maxVal) ==
    LET hasLeadingZero == pos <= Len(s) /\ s[pos] = "0"
        end == ReadDigits(s, pos, radix, 0, maxDigits)
    IN  IF end = 0 THEN 0
        ELSE IF end = pos THEN 0
        ELSE IF ~allowZeroPrefix /\ hasLeadingZero /\ end - pos > 1 THEN 0
        ELSE IF DigitsValue(s, pos, end, radix) > maxVal THEN 0
        ELSE end

\* read_separator(sep, index, inner): the separator before every group but
\* the first
ReadSeparator(s, pos, sep, index) ==
    IF index > 0 THEN ReadGivenChar(s, pos, sep) ELSE pos

RECURSIVE ReadIpv4Groups(_, _, _)
ReadIpv4Groups(s, pos, i) ==
    IF i = 4 THEN pos
    ELSE LET p1 == ReadSeparator(s, pos, ".", i)
             p2 == IF p1 = 0 THEN 0 ELSE ReadNumber(s, p1, 10, 3, FALSE, 255)
         IN  IF p2 = 0 THEN 0 ELSE ReadIpv4Groups(s, p2, i + 1)

ReadIpv4Addr(s, pos) == ReadIpv4Groups(s, pos, 0)

\* read_groups of read_ipv6_addr: up to limit groups of 16 bits from pos,
\* the last two of them possibly an embedded IPv4 address
RECURSIVE ReadGroups(_, _, _, _)
ReadGroups(s, pos, limit, i) ==
    IF i >= limit THEN [size |-> limit, ipv4 |-> FALSE, pos |-> pos]
    ELSE LET sep == ReadSeparator(s, pos, ":", i)
             v4 == IF i < limit - 1 /\ sep # 0 THEN ReadIpv4Addr(s, sep) ELSE 0
             grp == IF sep = 0 THEN 0 ELSE ReadNumber(s, sep, 16, 4, TRUE, 65535)
         IN  IF v4 # 0 THEN [size |-> i + 2, ipv4 |-> TRUE, pos |-> v4]
             ELSE IF grp = 0 THEN [size |-> i, ipv4 |-> FALSE, pos |-> pos]
             ELSE ReadGroups(s, grp, limit, i + 1)

ReadIpv6Addr(s, pos) ==
    LET head == ReadGroups(s, pos, 8, 0)
        c1 == ReadGivenChar(s, head.pos, ":")
        c2 == IF c1 = 0 THEN 0 ELSE ReadGivenChar(s, c1, ":")
    IN  IF head.size = 8 THEN head.pos
        ELSE IF head.ipv4 THEN 0
        ELSE IF c2 = 0 THEN 0
        ELSE ReadGroups(s, c2, 8 - (head.size + 1), 0).pos

\* Ipv4Addr::from_str: at most 15 bytes, and the parser must consume them all
ParseIpv4(s) == Len(s) <= 15 /\ ReadIpv4Addr(s, 1) = Len(s) + 1
\* Ipv6Addr::from_str
ParseIpv6(s) == ReadIpv6Addr(s, 1) = Len(s) + 1

\* validate_ip that trims what it is given
validate_ip_trimmed(ip, is_ipv6) ==
    IF is_ipv6 THEN ParseIpv6(Trim(ip)) ELSE ParseIpv4(Trim(ip))

validate_ip(ip, is_ipv6) == IF is_ipv6 THEN ParseIpv6(ip) ELSE ParseIpv4(ip)


(***************************************************************************)
(* has_global_ipv6_from_if_inet6: str::lines, str::split_whitespace and    *)
(* the scan for a line of at least six fields whose fourth is "00".        *)
(***************************************************************************)
\* the index of the first "\n" of s, 0 when it has none
RECURSIVE FirstNewline(_, _)
FirstNewline(s, i) ==
    IF i > Len(s) THEN 0
    ELSE IF s[i] = "\n" THEN i
    ELSE FirstNewline(s, i + 1)

\* a line ended by "\n" loses a "\r" before it
StripCr(line) ==
    IF line # <<>> /\ line[Len(line)] = "\r"
    THEN SubSeq(line, 1, Len(line) - 1)
    ELSE line

\* str::lines: the text cut after every "\n"; no line for an empty rest
RECURSIVE Lines(_)
Lines(s) ==
    IF s = <<>> THEN <<>>
    ELSE LET k == FirstNewline(s, 1)
         IN  IF k = 0 THEN <<s>>
             ELSE <<StripCr(SubSeq(s, 1, k - 1))>> \o Lines(SubSeq(s, k + 1, Len(s)))

\* the position after the run of non-whitespace that starts at i
RECURSIVE FieldEnd(_, _)
FieldEnd(s, i) ==
    IF i > Len(s) \/ s[i] \in Whitespace THEN i ELSE FieldEnd(s, i + 1)

\* str::split_whitespace: the maximal runs of non-whitespace, in order
RECURSIVE SplitWhitespaceFrom(_, _)
SplitWhitespaceFrom(s, i) ==
    IF i > Len(s) THEN <<>>
    ELSE IF s[i] \in Whitespace THEN SplitWhitespaceFrom(s, i + 1)
    ELSE LET e == FieldEnd(s, i)
         IN  <<SubSeq(s, i, e - 1)>> \o SplitWhitespaceFrom(s, e)

SplitWhitespace(s) == SplitWhitespaceFrom(s, 1)

GLOBAL_SCOPE == <<"0", "0">>

\* LineIsGlobal that takes the third field for the scope
LineIsGlobal_third_field(line) ==
    LET fields == SplitWhitespace(line)
    IN  IF Len(fields) < 6 THEN FALSE ELSE fields[3] = GLOBAL_SCOPE

\* the body of the for loop for one line: TRUE when the line makes the
\* function return true, FALSE when the loop goes on (continue included)
LineIsGlobal(line) ==
    LET fields == SplitWhitespace(line)
    IN  IF Len(fields) < 6 THEN FALSE ELSE fields[4] = GLOBAL_SCOPE

RECURSIVE ScanLines(_)
ScanLines(lines) ==
    IF lines = <<>> THEN FALSE
    ELSE IF LineIsGlobal(Head(lines)) THEN TRUE
    ELSE ScanLines(Tail(lines))

has_global_ipv6_from_if_inet6(content) == ScanLines(Lines(content))

(***************************************************************************)
(* The interface table /proc/net/if_inet6 as the run finds it: readable    *)
(* with some text, or unreadable with an io::Error.                        *)
(***************************************************************************)
ReadableFile(text) == [ok |-> TRUE, content |-> text, err |-> <<>>]
UnreadableFile(e) == [ok |-> FALSE, content |-> <<>>, err |-> e]
ENOENT == <<"No such file or directory (os error 2)">>

\* has_valid_ipv6 that drops the error of the read
has_valid_ipv6_no_diagnostic(file) ==
    IF file.ok
    THEN [present |-> has_global_ipv6_from_if_inet6(file.content), error |-> None]
    ELSE [present |-> FALSE, error |-> None]

\* has_valid_ipv6: (ipv6_present, ipv6_check_error)
has_valid_ipv6(file) ==
    IF file.ok
    THEN [present |-> has_global_ipv6_from_if_inet6(file.content), error |-> None]
    ELSE [present |-> FALSE,
          error |-> Some(<<"Error checking IPv6: ">> \o file.err)]

(***************************************************************************)
(* Interface tables the probe is run on.  A table is written down as its   *)
(* lines, each a number n of fields of which field k (0: none) is "00" and *)
(* the others the filler, and a style of spacing; TableText is the text of *)
(* the file.                                                               *)
(***************************************************************************)
LINK_LOCAL_SCOPE == <<"2", "0">>
Fillers == {LINK_LOCAL_SCOPE, <<"0", "0", "0">>}
Styles == {"unix", "dos"}

LineTemplates(maxFields) ==
    {t \in [n : 0..maxFields, k : 0..maxFields] : t.k <= t.n}

SeqsUpTo(S, m) == UNION {[1..j -> S] : j \in 0..m}

Tables(maxLines, maxFields) ==
    [readable : {TRUE}, lines : SeqsUpTo(LineTemplates(maxFields), maxLines),
     filler : Fillers, style : Styles]

UnreadableTable ==
    [readable |-> FALSE, lines |-> <<>>, filler |-> LINK_LOCAL_SCOPE, style |-> "unix"]

\* the field separator, the indentation and the line ending of a style; a
\* "dos" table has no line ending after its last line
FieldSep(style) == IF style = "unix" THEN <<" ">> ELSE <<" ", "\t">>
Indent(style) == IF style = "unix" THEN <<>> ELSE <<" ">>
LineEnd(style) == IF style = "unix" THEN <<"\n">> ELSE <<"\r", "\n">>

FieldText(tpl, i, filler) == IF i = tpl.k THEN GLOBAL_SCOPE ELSE filler

RECURSIVE FieldsText(_, _, _, _)
FieldsText(tpl, i, filler, style) ==
    IF i > tpl.n THEN <<>>
    ELSE (IF i > 1 THEN FieldSep(style) ELSE <<>>)
         \o FieldText(tpl, i, filler) \o FieldsText(tpl, i + 1, filler, style)

LineText(tpl, filler, style) == Indent(style) \o FieldsText(tpl, 1, filler, style)

RECURSIVE LinesText(_, _, _, _)
LinesText(lines, i, filler, style) ==
    IF i > Len(lines) THEN <<>>
    ELSE LineText(lines[i], filler, style)
         \o (IF style = "dos" /\ i = Len(lines) THEN <<>> ELSE LineEnd(style))
         \o LinesText(lines, i + 1, filler, style)

TableText(t) == LinesText(t.lines, 1, t.filler, t.style)

TableFile(t) ==
    IF t.readable THEN ReadableFile(TableText(t)) ELSE UnreadableFile(ENOENT)

\* the tables of a whole run: one with a global address after a link-local
\* one, one with link-local addresses only, an unreadable one
GlobalTable ==
    [readable |-> TRUE, lines |-> <<[n |-> 6, k |-> 0], [n |-> 6, k |-> 4]>>,
     filler |-> LINK_LOCAL_SCOPE, style |-> "unix"]
LinkLocalTable ==
    [readable |-> TRUE, lines |-> <<[n |-> 6, k |-> 0], [n |-> 6, k |-> 0]>>,
     filler |-> LINK_LOCAL_SCOPE, style |-> "unix"]
RunTables == {GlobalTable, LinkLocalTable, UnreadableTable}

(***************************************************************************)
(* What the network does to one request: the send fails, the response has  *)
(* a non-success status, the body cannot be read, the body is some text,   *)
(* or nothing comes before the timer of timeout() fires.                   *)
(***************************************************************************)
IP4_A == <<"2", "0", "3", ".", "0", ".", "1", "1", "3", ".", "7">>
IP4_B == <<"1", "9", "8", ".", "5", "1", ".", "1", "0", "0", ".", "2">>
IP4_B_RAW == IP4_B \o <<"\n">>
IP6_A == <<"2", "0", "0", "1", ":", "d", "b", "8", ":", ":", "1">>
IP6_B == <<":", ":", "f", "f", "f", "f", ":", "1", "9", "2", ".", "0", ".", "2", ".", "1">>
IP6_B_RAW == <<" ">> \o IP6_B \o <<"\r", "\n">>
HOSTNAME == <<"n", "o", "t", "-", "a", "n", "-", "i", "p">>

Resp(kind, text) == [kind |-> kind, text |-> text]
NoResp == Resp("none", <<>>)
SendError == Resp("send_err", <<"error sending request">>)
HttpStatus500 == Resp("status", <<"500 Internal Server Error">>)
BodyError == Resp("body_err", <<"error decoding response body">>)
TimerFired == Resp("timeout", <<>>)
Body(text) == Resp("body", text)

\* the responses of SpecRace
RaceResponses ==
    {SendError, HttpStatus500, BodyError, TimerFired}
        \cup {Body(b) : b \in {IP4_A, IP4_B_RAW, IP6_A, IP6_B_RAW, HOSTNAME, <<>>}}
\* the responses of a whole run
RunResponses == {HttpStatus500, TimerFired, Body(IP4_B_RAW), Body(IP6_A)}

\* Result<String, String>
Ok(x) == [ok |-> TRUE, val |-> x]
Err(e) == [ok |-> FALSE, val |-> e]

\* {} of an integer in format!()
FormatInt(n) == <<ToString(n)>>

IpLabel(is_ipv6) == IF is_ipv6 THEN "IPv6" ELSE "IPv4"

\* fetch_ip_from_url that returns the body as it came
fetch_ip_from_url_untrimmed(url, is_ipv6, resp) ==
    CASE resp.kind = "timeout" ->
            Err(<<"Timeout after ">> \o FormatInt(TIMEOUT) \o <<"s for ", url>>)
      [] resp.kind = "send_err" ->
            Err(<<"Request failed for ", url, ": ">> \o resp.text)
      [] resp.kind = "status" ->
            Err(<<"HTTP ">> \o resp.text \o <<" received from ", url>>)
      [] resp.kind = "body_err" ->
            Err(<<"Failed to read response body from ", url, ": ">> \o resp.text)
      [] resp.kind = "body" ->
            LET ip == Trim(resp.text)
            IN  IF validate_ip(ip, is_ipv6)
                THEN Ok(resp.text)
                ELSE Err(<<"Invalid ", IpLabel(is_ipv6), " address '">> \o ip
                         \o <<"' received from ", url>>)

\* fetch_ip_from_url: the Result of the attempt on url whose request met resp
fetch_ip_from_url(url, is_ipv6, resp) ==
    CASE resp.kind = "timeout" ->
            Err(<<"Timeout after ">> \o FormatInt(TIMEOUT) \o <<"s for ", url>>)
      [] resp.kind = "send_err" ->
            Err(<<"Request failed for ", url, ": ">> \o resp.text)
      [] resp.kind = "status" ->
            Err(<<"HTTP ">> \o resp.text \o <<" received from ", url>>)
      [] resp.kind = "body_err" ->
            Err(<<"Failed to read response body from ", url, ": ">> \o resp.text)
      [] resp.kind = "body" ->
            LET ip == Trim(resp.text)
            IN  IF validate_ip(ip, is_ipv6)
                THEN Ok(ip)
                ELSE Err(<<"Invalid ", IpLabel(is_ipv6), " address '">> \o ip
                         \o <<"' received from ", url>>)

(***************************************************************************)
(* get_ip.  The state of one call: where it is (idle: not called, called,  *)
(* racing: in the while loop, returned, skipped: never called because the  *)
(* probe found no IPv6), its attempts in the order of urls (inflight: the  *)
(* request is out; ready: the network has answered and the future waits to *)
(* be polled; consumed: requests.next() yielded its Result; dropped: the   *)
(* call returned before), the errors vector, the attempts in the order     *)
(* requests.next() yielded them, and the pair it returned.                 *)
(***************************************************************************)
SEPARATOR == <<"; ">>

\* [String]::join
RECURSIVE Join(_, _)
Join(strs, sep) ==
    IF strs = <<>> THEN <<>>
    ELSE IF Len(strs) = 1 THEN strs[1]
    ELSE strs[1] \o sep \o Join(Tail(strs), sep)

Attempt(st, resp) == [st |-> st, resp |-> resp]
FamilyResult(address, error) == [address |-> address, error |-> error]
Race(state, att, errors, done, result) ==
    [state |-> state, att |-> att, errors |-> errors, done |-> done,
     result |-> result]

IdleRace == Race("idle", <<>>, <<>>, <<>>, FamilyResult(None, None))
CalledRace == Race("called", <<>>, <<>>, <<>>, FamilyResult(None, None))
\* the else branch of ip_future: (None, None) without a call of get_ip
SkippedRace == Race("skipped", <<>>, <<>>, <<>>, FamilyResult(None, None))

\* get_ip_enter with an early return that reports no error
get_ip_enter_no_error(us) ==
    IF us = <<>>
    THEN Race("returned", <<>>, <<>>, <<>>, FamilyResult(None, None))
    ELSE Race("racing", [i \in 1..Len(us) |-> Attempt("inflight", NoResp)],
              <<>>, <<>>, FamilyResult(None, None))

\* get_ip up to its first await: the early return for no urls, else one
\* request per url pushed and polled
get_ip_enter(us) ==
    IF us = <<>>
    THEN Race("returned", <<>>, <<>>, <<>>,
              FamilyResult(None, Some(UNKNOWN_ERRORS)))
    ELSE Race("racing", [i \in 1..Len(us) |-> Attempt("inflight", NoResp)],
              <<>>, <<>>, FamilyResult(None, None))

\* combined_error that keeps the last error only
combined_error_last(errors) ==
    IF errors = <<>> THEN UNKNOWN_ERRORS ELSE errors[Len(errors)]

\* what is after the while loop
combined_error(errors) ==
    IF errors = <<>> THEN UNKNOWN_ERRORS ELSE Join(errors, SEPARATOR)

\* the return out of the loop: the other futures are dropped with requests
DropOthers(att, i) ==
    [j \in 1..Len(att) |->
        IF j = i THEN Attempt("consumed", att[j].resp)
        ELSE IF att[j].st = "consumed" THEN att[j]
        ELSE Attempt("dropped", att[j].resp)]

\* get_ip_next that returns on the first Result of either kind
get_ip_next_first_completion(r, i, res) ==
    IF res.ok
    THEN Race("returned", DropOthers(r.att, i), r.errors, Append(r.done, i),
              FamilyResult(Some(res.val), None))
    ELSE Race("returned", DropOthers(r.att, i), Append(r.errors, res.val),
              Append(r.done, i),
              FamilyResult(None, Some(combined_error(Append(r.errors, res.val)))))

\* get_ip_next that returns the errors so far beside the address
get_ip_next_keep_errors(r, i, res) ==
    IF res.ok
    THEN Race("returned", DropOthers(r.att, i), r.errors, Append(r.done, i),
              FamilyResult(Some(res.val),
                           IF r.errors = <<>> THEN None
                           ELSE Some(combined_error(r.errors))))
    ELSE LET att == [r.att EXCEPT ![i] = Attempt("consumed", r.att[i].resp)]
             errors == Append(r.errors, res.val)
             done == Append(r.done, i)
         IN  IF \A j \in 1..Len(att) : att[j].st = "consumed"
             THEN Race("returned", att, errors, done,
                       FamilyResult(None, Some(combined_error(errors))))
             ELSE Race("racing", att, errors, done, r.result)

\* get_ip_next that notes a valid address and goes on with the loop
get_ip_next_keep_racing(r, i, res) ==
    LET att == [r.att EXCEPT ![i] = Attempt("consumed", r.att[i].resp)]
        errors == IF res.ok THEN r.errors ELSE Append(r.errors, res.val)
        done == Append(r.done, i)
        result == IF res.ok THEN FamilyResult(Some(res.val), None) ELSE r.result
    IN  IF \A j \in 1..Len(att) : att[j].st = "consumed"
        THEN Race("returned", att, errors, done,
                  IF result.address.some THEN result
                  ELSE FamilyResult(None, Some(combined_error(errors))))
        ELSE Race("racing", att, errors, done, result)

\* get_ip_next that gives up the race when an attempt timed out
get_ip_next_timeout_ends_race(r, i, res) ==
    IF res.ok
    THEN Race("returned", DropOthers(r.att, i), r.errors, Append(r.done, i),
              FamilyResult(Some(res.val), None))
    ELSE LET att == [r.att EXCEPT ![i] = Attempt("consumed", r.att[i].resp)]
             errors == Append(r.errors, res.val)
             done == Append(r.done, i)
         IN  IF r.att[i].resp.kind = "timeout"
                \/ \A j \in 1..Len(att) : att[j].st = "consumed"
             THEN Race("returned", DropOthers(r.att, i), errors, done,
                       FamilyResult(None, Some(combined_error(errors))))
             ELSE Race("racing", att, errors, done, r.result)

\* get_ip_next that keeps the errors in the order of urls
get_ip_next_declaration_order(r, i, res) ==
    IF res.ok
    THEN Race("returned", DropOthers(r.att, i), r.errors, Append(r.done, i),
              FamilyResult(Some(res.val), None))
    ELSE LET att == [r.att EXCEPT ![i] = Attempt("consumed", r.att[i].resp)]
             before == Cardinality({k \in 1..Len(r.done) : r.done[k] < i})
             errors == SubSeq(r.errors, 1, before) \o <<res.val>>
                           \o SubSeq(r.errors, before + 1, Len(r.errors))
             done == Append(r.done, i)
         IN  IF \A j \in 1..Len(att) : att[j].st = "consumed"
             THEN Race("returned", att, errors, done,
                       FamilyResult(None, Some(combined_error(errors))))
             ELSE Race("racing", att, errors, done, r.result)

\* one turn of the while loop of get_ip: requests.next() yields res, the
\* Result of attempt i
get_ip_next(r, i, res) ==
    IF res.ok
    THEN Race("returned", DropOthers(r.att, i), r.errors, Append(r.done, i),
              FamilyResult(Some(res.val), None))
    ELSE LET att == [r.att EXCEPT ![i] = Attempt("consumed", r.att[i].resp)]
             errors == Append(r.errors, res.val)
             done == Append(r.done, i)
         IN  IF \A j \in 1..Len(att) : att[j].st = "consumed"
             THEN Race("returned", att, errors, done,
                       FamilyResult(None, Some(combined_error(errors))))
             ELSE Race("racing", att, errors, done, r.result)

(***************************************************************************)
(* serde_json::Value.  An object is the sequence of its entries in the     *)
(* order the map iterates them.                                            *)
(***************************************************************************)
JNull == [t |-> "null", v |-> <<>>]
JBool(b) == [t |-> "bool", v |-> <<b>>]
JString(s) == [t |-> "string", v |-> s]
JArray(elems) == [t |-> "array", v |-> elems]
JObject(entries) == [t |-> "object", v |-> entries]
Entry(key, value) == [key |-> key, value |-> value]

\* Serialize for Option<String>
JOption(o) == IF o.some THEN JString(o.val) ELSE JNull

\* the characters of the keys, in byte order
Alphabet ==
    <<"-", "0", "1", "2", "3", "4", "5", "6", "7", "8", "9", "_",
      "a", "b", "c", "d", "e", "f", "g", "h", "i", "j", "k", "l", "m",
      "n", "o", "p", "q", "r", "s", "t", "u", "v", "w", "x", "y", "z">>
CharRank(c) == CHOOSE i \in 1..Len(Alphabet) : Alphabet[i] = c

\* Ord for String: a < b
RECURSIVE StrLess(_, _)
StrLess(a, b) ==
    IF b = <<>> THEN FALSE
    ELSE IF a = <<>> THEN TRUE
    ELSE IF Head(a) = Head(b) THEN StrLess(Tail(a), Tail(b))
    ELSE CharRank(Head(a)) < CharRank(Head(b))

\* BTreeInsert that pushes the entry at the end, as a Vec would
BTreeInsert_push(entries, key, value) == Append(entries, Entry(key, value))

\* BTreeMap::insert: the entries stay in the order of their keys, and a
\* key that is there gets the new value
RECURSIVE BTreeInsert(_, _, _)
BTreeInsert(entries, key, value) ==
    IF entries = <<>> THEN <<Entry(key, value)>>
    ELSE IF Head(entries).key = key THEN <<Entry(key, value)>> \o Tail(entries)
    ELSE IF StrLess(key, Head(entries).key) THEN <<Entry(key, value)>> \o entries
    ELSE <<Head(entries)>> \o BTreeInsert(Tail(entries), key, value)

RECURSIVE sort_json_value(_)
RECURSIVE SortEntries(_, _)
\* the first for loop of the Object arm: every entry into sorted
SortEntries(entries, sorted) ==
    IF entries = <<>> THEN sorted
    ELSE SortEntries(Tail(entries),
                     BTreeInsert(sorted, Head(entries).key,
                                 sort_json_value(Head(entries).value)))

\* sort_json_value that returns an array as it is
sort_json_value_skip_arrays(value) ==
    CASE value.t = "object" -> JObject(SortEntries(value.v, <<>>))
      [] OTHER -> value

sort_json_value(value) ==
    CASE value.t = "object" -> JObject(SortEntries(value.v, <<>>))
      [] value.t = "array" ->
            JArray([i \in 1..Len(value.v) |-> sort_json_value(value.v[i])])
      [] OTHER -> value

\* serde_json::Value::Number, by its digits
JNumber(digits) == [t |-> "number", v |-> digits]

\* a JSON string: the quotes, and the escapes of the characters
Quote(s) ==
    LET escape(c) == CASE c = "\"" -> <<"\\", "\"">>
                       [] c = "\\" -> <<"\\", "\\">>
                       [] c = "\n" -> <<"\\", "n">>
                       [] c = "\r" -> <<"\\", "r">>
                       [] c = "\t" -> <<"\\", "t">>
                       [] OTHER -> <<c>>
    IN  <<"\"">> \o Join([k \in 1..Len(s) |-> escape(s[k])], <<>>) \o <<"\"">>

\* serde_json::to_string: the compact text of a value
RECURSIVE to_string(_)
to_string(value) ==
    CASE value.t = "null" -> <<"n", "u", "l", "l">>
      [] value.t = "bool" ->
            IF value.v[1] THEN <<"t", "r", "u", "e">> ELSE <<"f", "a", "l", "s", "e">>
      [] value.t = "number" -> value.v
      [] value.t = "string" -> Quote(value.v)
      [] value.t = "array" ->
            <<"[">> \o Join([i \in 1..Len(value.v) |-> to_string(value.v[i])], <<",">>)
                    \o <<"]">>
      [] value.t = "object" ->
            <<"{">> \o Join([i \in 1..Len(value.v) |->
                                Quote(value.v[i].key) \o <<":">>
                                    \o to_string(value.v[i].value)],
                            <<",">>)
                    \o <<"}">>

\* the value of key in an object
Get(obj, key) == obj.v[CHOOSE i \in 1..Len(obj.v) : obj.v[i].key = key].value

K_saltbox_facts_version ==
    <<"s", "a", "l", "t", "b", "o", "x", "_", "f", "a", "c", "t", "s", "_",
      "v", "e", "r", "s", "i", "o", "n">>
K_ip == <<"i", "p">>
K_groups == <<"g", "r", "o", "u", "p", "s">>
K_users == <<"u", "s", "e", "r", "s">>
K_timezone == <<"t", "i", "m", "e", "z", "o", "n", "e">>
K_public_ip == <<"p", "u", "b", "l", "i", "c", "_", "i", "p">>
K_public_ipv6 == <<"p", "u", "b", "l", "i", "c", "_", "i", "p", "v", "6">>
K_error_ipv4 == <<"e", "r", "r", "o", "r", "_", "i", "p", "v", "4">>
K_error_ipv6 == <<"e", "r", "r", "o", "r", "_", "i", "p", "v", "6">>
K_failed_ipv4 == <<"f", "a", "i", "l", "e", "d", "_", "i", "p", "v", "4">>
K_failed_ipv6 == <<"f", "a", "i", "l", "e", "d", "_", "i", "p", "v", "6">>
K_ipv6_check_error ==
    <<"i", "p", "v", "6", "_", "c", "h", "e", "c", "k", "_", "e", "r", "r", "o", "r">>

VERSION == <<"CARGO_PKG_VERSION">>

\* Option<String>::unwrap_or_default
UnwrapOrDefault(o) == IF o.some THEN o.val ELSE <<>>

\* IpOutput with failed_ipv6 taken from ipv4
IpOutput_failed_from_ipv4(ipv4, ipv4_error, ipv6, ipv6_error, check_error) ==
    JObject(<<Entry(K_public_ip, JString(UnwrapOrDefault(ipv4))),
              Entry(K_public_ipv6, JString(UnwrapOrDefault(ipv6))),
              Entry(K_error_ipv4, JOption(ipv4_error)),
              Entry(K_error_ipv6, JOption(ipv6_error)),
              Entry(K_failed_ipv4, JBool(~ipv4.some)),
              Entry(K_failed_ipv6, JBool(~ipv4.some)),
              Entry(K_ipv6_check_error, JOption(check_error))>>)

\* IpOutput as main fills it in, serialized field by field
IpOutput(ipv4, ipv4_error, ipv6, ipv6_error, check_error) ==
    LET failed_ipv4 == ~ipv4.some
        failed_ipv6 == ~ipv6.some
    IN  JObject(<<Entry(K_public_ip, JString(UnwrapOrDefault(ipv4))),
                  Entry(K_public_ipv6, JString(UnwrapOrDefault(ipv6))),
                  Entry(K_error_ipv4, JOption(ipv4_error)),
                  Entry(K_error_ipv6, JOption(ipv6_error)),
                  Entry(K_failed_ipv4, JBool(failed_ipv4)),
                  Entry(K_failed_ipv6, JBool(failed_ipv6)),
                  Entry(K_ipv6_check_error, JOption(check_error))>>)

\* Output, serialized field by field
Output(ip, groups, users, timezone) ==
    JObject(<<Entry(K_saltbox_facts_version, JString(VERSION)),
              Entry(K_ip, ip),
              Entry(K_groups, groups),
              Entry(K_users, users),
              Entry(K_timezone, timezone)>>)

(***************************************************************************)
(* The timezone.  TZ is the variable of the environment as the system      *)
(* holds it (None when unset; a text that may have bytes that are not      *)
(* UTF-8), etc_timezone is what read_to_string gives for /etc/timezone,    *)
(* and localtime what read_link gives for /etc/localtime (None for an      *)
(* error): the target is written down as a directory, the marker           *)
(* "zoneinfo/" or nothing, and the rest.                                   *)
(***************************************************************************)
INVALID_BYTE == "\\xFF"
ETC_UTC == <<"E", "t", "c", "/", "U", "T", "C">>
ZONEINFO == <<"z", "o", "n", "e", "i", "n", "f", "o", "/">>

\* env::var: Err(NotPresent), Err(NotUnicode) or Ok(the text)
env_var(os) ==
    IF ~os.some THEN Err(<<"environment variable not found">>)
    ELSE IF \E k \in 1..Len(os.val) : os.val[k] = INVALID_BYTE
         THEN Err(<<"environment variable was not valid unicode">>)
         ELSE Ok(os.val)

\* Path::to_string_lossy
to_string_lossy(path) ==
    [k \in 1..Len(path) |->
        IF path[k] = INVALID_BYTE THEN "U+FFFD" ELSE path[k]]

\* str::find: the index of the first occurrence, or -1 for None
Find(hay, needle) ==
    LET hits == {k \in 0..(Len(hay) - Len(needle)) :
                    SubSeq(hay, k + 1, k + Len(needle)) = needle}
    IN  IF hits = {} THEN -1
        ELSE CHOOSE k \in hits : \A j \in hits : k <= j

timezone_from_etc_timezone(content) ==
    LET tz == Trim(content)
    IN  IF tz = <<>> THEN None ELSE Some(tz)

\* timezone_from_localtime_target that does not trim
timezone_from_localtime_target_as_is(target) ==
    LET target_str == to_string_lossy(target)
        index == Find(target_str, ZONEINFO)
    IN  IF index = -1 THEN None
        ELSE LET tz == SubSeq(target_str, index + Len(ZONEINFO) + 1, Len(target_str))
             IN  IF Trim(tz) = <<>> THEN None ELSE Some(tz)

timezone_from_localtime_target(target) ==
    LET target_str == to_string_lossy(target)
        index == Find(target_str, ZONEINFO)
    IN  IF index = -1 THEN None
        ELSE LET tz == Trim(SubSeq(target_str, index + Len(ZONEINFO) + 1,
                                   Len(target_str)))
             IN  IF tz = <<>> THEN None ELSE Some(tz)

Link(dir, marker, rest) == [dir |-> dir, marker |-> marker, rest |-> rest]
\* the target of the link, as read_link gives it
LinkTarget(l) == l.dir \o (IF l.marker THEN ZONEINFO ELSE <<>>) \o l.rest

\* get_timezone, with the sources it read, in the order it read them
get_timezone(env) ==
    LET tz == env_var(env.TZ)
        fromFile == IF env.etc_timezone.ok
                    THEN timezone_from_etc_timezone(env.etc_timezone.content)
                    ELSE None
        fromLink == IF env.localtime.some
                    THEN timezone_from_localtime_target(LinkTarget(env.localtime.val))
                    ELSE None
    IN  IF tz.ok THEN [timezone |-> tz.val, reads |-> <<"TZ">>]
        ELSE IF fromFile.some
        THEN [timezone |-> fromFile.val, reads |-> <<"TZ", "/etc/timezone">>]
        ELSE IF fromLink.some
        THEN [timezone |-> fromLink.val,
              reads |-> <<"TZ", "/etc/timezone", "/etc/localtime">>]
        ELSE [timezone |-> ETC_UTC,
              reads |-> <<"TZ", "/etc/timezone", "/etc/localtime">>]

\* Serialize for TimezoneData
TimezoneData(tz) == JObject(<<Entry(K_timezone, JString(tz))>>)

EUROPE_COPENHAGEN == <<"E", "u", "r", "o", "p", "e", "/", "C", "o", "p", "e", "n", "h", "a",
      "g", "e", "n">>

\* the environments get_timezone is run in
TzEnvs ==
    LET ASIA_TOKYO == <<"A", "s", "i", "a", "/", "T", "o", "k", "y", "o">>
        USR_SHARE == <<"/", "u", "s", "r", "/", "s", "h", "a", "r", "e", "/">>
        CUSTOM_LOCALTIME ==
            <<"/", "v", "a", "r", "/", "l", "i", "b", "/", "c", "u", "s", "t", "o",
              "m", "/", "l", "o", "c", "a", "l", "t", "i", "m", "e">>
        values == {None, Some(<<>>), Some(ASIA_TOKYO), Some(<<" ">> \o ASIA_TOKYO),
                   Some(<<INVALID_BYTE>>)}
        files == {UnreadableFile(ENOENT), ReadableFile(<<>>),
                  ReadableFile(<<" ", " ", " ", "\n", "\t">>),
                  ReadableFile(EUROPE_COPENHAGEN \o <<"\n">>)}
        links == {None} \cup
                 {Some(l) : l \in
                    {Link(CUSTOM_LOCALTIME, FALSE, <<>>),
                     Link(USR_SHARE, TRUE, <<>>), Link(USR_SHARE, TRUE, <<" ">>),
                     Link(USR_SHARE, TRUE, ETC_UTC),
                     Link(USR_SHARE, TRUE, ZONEINFO \o ETC_UTC),
                     Link(USR_SHARE, TRUE, ETC_UTC \o <<"\n">>),
                     Link(USR_SHARE \o <<INVALID_BYTE>>, TRUE, EUROPE_COPENHAGEN)}}
    IN  [TZ : values, etc_timezone : files, localtime : links]

\* the environment of the runs of main: /etc/timezone alone
RunTzEnv ==
    [TZ |-> None, etc_timezone |-> ReadableFile(EUROPE_COPENHAGEN \o <<"\n">>),
     localtime |-> None]

(***************************************************************************)
(* The local-file lookups, run by spawn_blocking: parse_groups and         *)
(* parse_users end with their map or with an io::Error, get_timezone with  *)
(* its TimezoneData.  What parse_groups and parse_users read is not        *)
(* modelled: when they end well they give the data below.                  *)
(***************************************************************************)
Tasks == {"groups", "users", "timezone"}
TaskOutcomes(t) == IF t = "timezone" THEN {"ok"} ELSE {"ok", "io_err"}

K_gid == <<"g", "i", "d">>
K_group_list == <<"g", "r", "o", "u", "p", "-", "l", "i", "s", "t">>
K_uid == <<"u", "i", "d">>
GROUPS_DATA ==
    JObject(<<Entry(<<"s", "u", "d", "o">>,
                    JObject(<<Entry(K_gid, JString(<<"2", "7">>)),
                              Entry(K_group_list, JArray(<<JString(<<"a", "l">>)>>))>>)),
              Entry(<<"a", "d", "m">>,
                    JObject(<<Entry(K_gid, JString(<<"4">>)),
                              Entry(K_group_list, JArray(<<>>))>>))>>)
USERS_DATA ==
    JObject(<<Entry(<<"r", "o", "o", "t">>,
                    JObject(<<Entry(K_uid, JString(<<"0">>)),
                              Entry(K_gid, JString(<<"0">>))>>))>>)

(***************************************************************************)
(* The state.  table and if_inet6 are /proc/net/if_inet6 (as written down  *)
(* and as text); ip_pc is where ip_future is and pc where main is; probe   *)
(* is what has_valid_ipv6 returned; task is the state of each lookup; urls *)
(* and race are the arguments and the state of the two calls of get_ip;    *)
(* stdout are the lines printed and exit the way the process ended; tz_env *)
(* is what get_timezone finds and timezone what it returned; clock is the  *)
(* time since the requests were issued, in seconds.  json, candidate and   *)
(* verdict are the arguments and results of sort_json_value and            *)
(* validate_ip where these are applied on their own.                       *)
(***************************************************************************)
VARIABLES table, if_inet6, ip_pc, pc, probe, task, urls, race, stdout, exit,
          tz_env, timezone, clock, json, candidate, verdict

vars == <<table, if_inet6, ip_pc, pc, probe, task, urls, race, stdout, exit,
          tz_env, timezone, clock, json, candidate, verdict>>

\* what a run of main does not touch: the values the functions are applied
\* to on their own
unit_vars == <<json, candidate, verdict>>
\* what these functions do not touch
run_vars == <<table, if_inet6, ip_pc, pc, probe, task, urls, race, stdout, exit,
              tz_env, timezone, clock>>

NoProbe == [present |-> FALSE, error |-> None]

\* a value handed to sort_json_value, its twin and the results
JsonCase(x, y) ==
    [orig |-> x, twin |-> y, out |-> None, out_twin |-> None, again |-> None]
NoJson == JsonCase(JNull, JNull)

\* a text handed to validate_ip, written down by its make: whitespace before
\* and after; for "v4" the octets between dots; for "v6" nHead groups, "::"
\* or not, nTail groups and a last part in dotted form or not, every group
\* the same text; for "host" the name HOSTNAME
Candidate(kind, lead, trail, octets, nHead, nTail, group, compressed, v4tail) ==
    [kind |-> kind, lead |-> lead, trail |-> trail, octets |-> octets,
     nHead |-> nHead, nTail |-> nTail, group |-> group,
     compressed |-> compressed, v4tail |-> v4tail]
NoCandidate == Candidate("host", <<>>, <<>>, <<>>, 0, 0, <<>>, FALSE, FALSE)

InitWith(t, us, rs, ipPc, mainPc) ==
    /\ table = t
    /\ if_inet6 = TableFile(t)
    /\ ip_pc = ipPc
    /\ pc = mainPc
    /\ probe = NoProbe
    /\ task = [t2 \in Tasks |-> "running"]
    /\ urls = us
    /\ race = rs
    /\ stdout = <<>>
    /\ exit = "running"
    /\ timezone = None
    /\ clock = 0

\* what is left of the state when it begins
InitRest(e, j, c) ==
    /\ tz_env = e
    /\ json = j
    /\ candidate = c
    /\ verdict = None

\* the source lists of main
RunUrls == [f \in Families |-> IF IsIpv6(f) THEN IPV6_URLS ELSE IPV4_URLS]

\* main up to tokio::join!: the lookups are spawned, nothing has run
Init ==
    \E t \in RunTables :
        /\ InitWith(t, RunUrls, [f \in Families |-> IdleRace], "probe", "join")
        /\ InitRest(RunTzEnv, NoJson, NoCandidate)

\* let (ipv6_present, ipv6_check_error) = has_valid_ipv6();
Probe ==
    /\ ip_pc = "probe"
    /\ probe' = has_valid_ipv6(if_inet6)
    /\ ip_pc' = "probed"
    /\ UNCHANGED <<table, if_inet6, pc, task, urls, race, stdout, exit,
                   tz_env, timezone, clock, unit_vars>>

\* start_races that does not look at the probe
start_races_always(present, us) == [f \in Families |-> get_ip_enter(us[f])]

\* start_races that awaits the IPv4 race before it calls the IPv6 one
start_races_in_turn(present, us) ==
    [f \in Families |->
        IF IsIpv6(f) THEN (IF present THEN CalledRace ELSE SkippedRace)
        ELSE get_ip_enter(us[f])]

\* the races ip_future starts after the probe: both by tokio::join! when
\* IPv6 is present, else the one of IPv4 with (None, None) for IPv6.  The
\* first poll of the join runs every get_ip up to its first await.
start_races(present, us) ==
    [f \in Families |->
        IF IsIpv6(f) /\ ~present THEN SkippedRace ELSE get_ip_enter(us[f])]

StartRaces ==
    /\ ip_pc = "probed"
    /\ race' = start_races(probe.present, urls)
    /\ ip_pc' = "racing"
    /\ UNCHANGED <<table, if_inet6, pc, probe, task, urls, stdout, exit,
                   tz_env, timezone, clock, unit_vars>>

\* get_ip is called on its own (SpecRace)
GetIp(f) ==
    /\ race[f].state = "called"
    /\ race' = [race EXCEPT ![f] = get_ip_enter(urls[f])]
    /\ UNCHANGED <<table, if_inet6, ip_pc, pc, probe, task, urls, stdout, exit,
                   tz_env, timezone, clock, unit_vars>>

\* the network answers the request of attempt i of family f, or its timer
\* fires: the future is woken
Arrive(f, i, resp) ==
    /\ race[f].state = "racing"
    /\ i \in 1..Len(race[f].att)
    /\ race[f].att[i].st = "inflight"
    /\ race' = [race EXCEPT ![f].att[i] = Attempt("ready", resp)]
    /\ UNCHANGED <<table, if_inet6, ip_pc, pc, probe, task, urls, stdout, exit,
                   tz_env, timezone, clock, unit_vars>>

\* requests.next() polls the woken attempt i to its end and the loop of
\* get_ip takes its Result
Next_(f, i) ==
    /\ race[f].state = "racing"
    /\ i \in 1..Len(race[f].att)
    /\ race[f].att[i].st = "ready"
    /\ race' = [race EXCEPT ![f] =
                    get_ip_next(race[f], i,
                                fetch_ip_from_url(urls[f][i], IsIpv6(f),
                                                  race[f].att[i].resp))]
    /\ UNCHANGED <<table, if_inet6, ip_pc, pc, probe, task, urls, stdout, exit,
                   tz_env, timezone, clock, unit_vars>>

\* a lookup ends on its blocking thread
TaskEnd(t, outcome) ==
    /\ task[t] = "running"
    /\ outcome \in TaskOutcomes(t)
    /\ task' = [task EXCEPT ![t] = outcome]
    /\ timezone' = IF t = "timezone" THEN Some(get_timezone(tz_env)) ELSE timezone
    /\ UNCHANGED <<table, if_inet6, ip_pc, pc, probe, urls, race, stdout, exit,
                   tz_env, clock, unit_vars>>

\* ip_future has its tuple: every race it started has returned
IpFutureDone ==
    /\ ip_pc = "racing"
    /\ \A f \in Families : race[f].state \in {"returned", "skipped"}

\* join_ready that does not wait for ip_future
join_ready_tasks_only(ipDone, tk) == \A t \in Tasks : tk[t] # "running"

\* what tokio::join!(ip_future, groups_handle, users_handle,
\* timezone_handle) waits for
join_ready(ipDone, tk) == ipDone /\ \A t \in Tasks : tk[t] # "running"

JoinAll ==
    /\ pc = "join"
    /\ join_ready(IpFutureDone, task)
    /\ pc' = "joined"
    /\ UNCHANGED <<table, if_inet6, ip_pc, probe, task, urls, race, stdout, exit,
                   tz_env, timezone, clock, unit_vars>>

\* first_failure without the ? on users_result
first_failure_groups_only(tk) == IF tk["groups"] # "ok" THEN "groups" ELSE "none"

\* the ? of main after the join: the first lookup that failed, in the
\* order groups, users, timezone; "none" when all ended well
first_failure(tk) ==
    IF tk["groups"] # "ok" THEN "groups"
    ELSE IF tk["users"] # "ok" THEN "users"
    ELSE IF tk["timezone"] # "ok" THEN "timezone"
    ELSE "none"

\* the line main prints
output_line(rc, pr, tz) ==
    sort_json_value(
        Output(IpOutput(rc["v4"].result.address, rc["v4"].result.error,
                        rc["v6"].result.address, rc["v6"].result.error,
                        pr.error),
               GROUPS_DATA, USERS_DATA, TimezoneData(tz.timezone)))

\* main after the join: return the error of a lookup, or print and Ok(())
Finish ==
    /\ pc = "joined"
    /\ IF first_failure(task) # "none"
       THEN /\ pc' = "failed"
            /\ exit' = "failure"
            /\ stdout' = stdout
       ELSE /\ pc' = "printed"
            /\ exit' = "success"
            /\ stdout' = Append(stdout, output_line(race, probe, timezone.val))
    /\ UNCHANGED <<table, if_inet6, ip_pc, probe, task, urls, race,
                   tz_env, timezone, clock, unit_vars>>

Next ==
    \/ Probe
    \/ StartRaces
    \/ \E f \in Families : \E i \in 1..Len(urls[f]) : \E resp \in RunResponses :
            Arrive(f, i, resp)
    \/ \E f \in Families : \E i \in 1..Len(urls[f]) : Next_(f, i)
    \/ \E t \in Tasks, outcome \in {"ok", "io_err"} : TaskEnd(t, outcome)
    \/ JoinAll
    \/ Finish

Spec == Init /\ [][Next]_vars

(***************************************************************************)
(* SpecTimed: the run of main with the time since the requests were        *)
(* issued.  Every attempt sets its timer when get_ip first polls it, which *)
(* is when the requests are issued (clock 0); an answer arrives before the *)
(* timer is due and the timer fires when it is due; time does not pass     *)
(* while a timer is due or a woken future waits to be polled.  The         *)
(* runtime goes on while anything can be done: the timers and the network  *)
(* end every attempt, the blocking lookups end and time passes (Events);   *)
(* and the runtime polls what was woken: the probe, the woken attempts and *)
(* the end of main are each weakly fair, which is written with the guard   *)
(* of the action for its ENABLED (each of them disables itself).           *)
(***************************************************************************)
\* attempt_deadline of attempts that are awaited one after the other
attempt_deadline_in_turn(start, i) == start + i * TIMEOUT

\* timeout(Duration::from_secs(TIMEOUT), ...): when the timer of attempt i
\* is due, for a call that issued its requests at start
attempt_deadline(start, i) == start + TIMEOUT

ArriveTimed(f, i, resp) ==
    /\ IF resp.kind = "timeout"
       THEN clock = attempt_deadline(0, i)
       ELSE clock < attempt_deadline(0, i)
    /\ Arrive(f, i, resp)

\* a second passes
Tick ==
    /\ \E f \in Families : race[f].state = "racing"
    /\ \A f \in Families : \A i \in 1..Len(race[f].att) :
            race[f].state = "racing" =>
                /\ race[f].att[i].st # "ready"
                /\ race[f].att[i].st = "inflight" => clock < attempt_deadline(0, i)
    /\ clock' = clock + 1
    /\ UNCHANGED <<table, if_inet6, ip_pc, pc, probe, task, urls, race, stdout,
                   exit, tz_env, timezone, unit_vars>>

Events ==
    \/ StartRaces
    \/ \E f \in Families : \E i \in 1..Len(urls[f]) : \E resp \in RunResponses :
            ArriveTimed(f, i, resp)
    \/ \E t \in Tasks, outcome \in {"ok", "io_err"} : TaskEnd(t, outcome)
    \/ JoinAll
    \/ Tick

\* main with source lists of every length up to those of IPV4_URLS and
\* IPV6_URLS, its steps, and what makes it go on
SpecTimed ==
    /\ \E t \in RunTables : \E n \in [Families -> 1..Len(IPV4_URLS)] :
            /\ InitWith(t, [f \in Families |-> SubSeq(RunUrls[f], 1, n[f])],
                        [f \in Families |-> IdleRace], "probe", "join")
            /\ InitRest(RunTzEnv, NoJson, NoCandidate)
    /\ [][\/ Probe
          \/ \E f \in Families : \E i \in 1..Len(urls[f]) : Next_(f, i)
          \/ Finish
          \/ Events]_vars
    /\ WF_vars(Events)
    /\ []<>(ip_pc # "probe")
    /\ []<>(\A f \in Families : \A i \in 1..Len(race[f].att) :
                ~(race[f].state = "racing" /\ race[f].att[i].st = "ready"))
    /\ []<>(pc # "joined")

(***************************************************************************)
(* SpecProbe: has_valid_ipv6 on every interface table within the bounds.   *)
(***************************************************************************)
InitProbe ==
    \E t \in Tables(MaxLines, MaxFields) \cup {UnreadableTable} :
        /\ InitWith(t, RunUrls, [f \in Families |-> IdleRace], "probe", "join")
        /\ InitRest(RunTzEnv, NoJson, NoCandidate)

NextProbe == Probe

SpecProbe == InitProbe /\ [][NextProbe]_vars

(***************************************************************************)
(* SpecRace: get_ip called on its own, for either family, on every list of *)
(* at most MaxSources sources (the empty one and lists that name a source  *)
(* twice included), with every response to every request.                  *)
(***************************************************************************)
RaceUrls == {IPV4_URLS[1], IPV4_URLS[2]}

InitRace ==
    \E g \in Families, us \in SeqsUpTo(RaceUrls, MaxSources) :
        /\ InitWith(UnreadableTable,
                    [f \in Families |-> IF f = g THEN us ELSE <<>>],
                    [f \in Families |-> IF f = g THEN CalledRace ELSE IdleRace],
                    "off", "off")
        /\ InitRest(RunTzEnv, NoJson, NoCandidate)

NextRace ==
    \/ \E f \in Families : GetIp(f)
    \/ \E f \in Families : \E i \in 1..Len(urls[f]) : \E resp \in RaceResponses :
            Arrive(f, i, resp)
    \/ \E f \in Families : \E i \in 1..Len(urls[f]) : Next_(f, i)

SpecRace == InitRace /\ [][NextRace]_vars

(***************************************************************************)
(* SpecJson: sort_json_value on its own.  json.orig is a value and         *)
(* json.twin the same value with the keys of its objects inserted in       *)
(* another order; out and out_twin are what sort_json_value gives for      *)
(* them, and again what it gives for out.  The values are the scalars, the *)
(* objects of at most MaxKeys keys (in every order of insertion) with      *)
(* scalars, objects and arrays of objects in them, and the value of the    *)
(* test sorts_json_keys_alphabetically_recursively.                        *)
(***************************************************************************)
TEST_VALUE ==
    JObject(<<Entry(<<"z">>, JNumber(<<"1">>)),
              Entry(<<"a">>, JObject(<<Entry(<<"d">>, JNumber(<<"2">>)),
                                       Entry(<<"b">>, JNumber(<<"3">>))>>)),
              Entry(<<"m">>, JArray(<<JObject(<<Entry(<<"k">>, JNumber(<<"1">>)),
                                                Entry(<<"c">>, JNumber(<<"2">>))>>)>>))>>)
JsonValues(m) ==
    LET keys == {<<"a">>, <<"a", "b">>, <<"b">>, <<"z">>}
        keySeqs == {ks \in SeqsUpTo(keys, m) :
                        \A i, j \in 1..Len(ks) : ks[i] = ks[j] => i = j}
        scalars == {JNull, JBool(TRUE), JNumber(<<"1">>),
                    JString(<<"z", "\"", "a">>)}
        \* the object with these keys, inserted in this order, each with
        \* its own value
        leaf(ks) == JObject([i \in 1..Len(ks) |-> Entry(ks[i], JString(ks[i]))])
        nested ==
            {JNumber(<<"1">>),
             leaf(<<<<"z">>, <<"a">>>>),
             JArray(<<leaf(<<<<"b">>, <<"a", "b">>, <<"a">>>>), JString(<<"z">>),
                      leaf(<<>>)>>),
             JObject(<<Entry(<<"b">>, leaf(<<<<"z">>, <<"a">>>>)),
                       Entry(<<"a">>, JArray(<<leaf(<<<<"b">>, <<"a">>>>)>>))>>)}
    IN  scalars
        \cup {leaf(ks) : ks \in keySeqs}
        \cup {JArray(<<leaf(ks), JNull>>) : ks \in keySeqs}
        \cup UNION {{JObject([i \in 1..Len(ks) |-> Entry(ks[i], vs[i])]) :
                        vs \in [1..Len(ks) -> nested]} : ks \in keySeqs}
        \cup {TEST_VALUE}

\* the same value with the keys inserted in another order: every object's
\* entries reversed ("reverse") or rotated by one ("rotate") at every
\* depth, reversed at the top only or below the top only
RECURSIVE Reorder(_, _)
Reorder(value, how) ==
    LET below == CASE how = "reverse_top" -> "same"
                   [] how = "reverse_nested" -> "reverse"
                   [] OTHER -> how
        permute(entries) ==
            IF entries = <<>> THEN entries
            ELSE IF how = "rotate" THEN Tail(entries) \o <<Head(entries)>>
            ELSE [i \in 1..Len(entries) |-> entries[Len(entries) + 1 - i]]
    IN  CASE value.t = "object" ->
                LET entries == [i \in 1..Len(value.v) |->
                                    Entry(value.v[i].key,
                                          Reorder(value.v[i].value, below))]
                IN  JObject(IF how \in {"same", "reverse_nested"} THEN entries
                            ELSE permute(entries))
          [] value.t = "array" ->
                JArray([i \in 1..Len(value.v) |-> Reorder(value.v[i], how)])
          [] OTHER -> value
InitJson ==
    /\ InitWith(UnreadableTable, RunUrls, [f \in Families |-> IdleRace], "off", "off")
    /\ json \in {JsonCase(x, Reorder(x, how)) :
                    x \in JsonValues(MaxKeys),
                    how \in {"same", "reverse", "rotate", "reverse_top",
                             "reverse_nested"}}
    /\ InitRest(RunTzEnv, json, NoCandidate)

\* let sorted = sort_json_value(value), for the value and for its twin
SortJson ==
    /\ ~json.out.some
    /\ json' = [json EXCEPT !.out = Some(sort_json_value(json.orig)),
                            !.out_twin = Some(sort_json_value(json.twin))]
    /\ UNCHANGED <<run_vars, candidate, verdict>>

\* sort_json_value(sorted)
SortAgain ==
    /\ json.out.some
    /\ ~json.again.some
    /\ json' = [json EXCEPT !.again = Some(sort_json_value(json.out.val))]
    /\ UNCHANGED <<run_vars, candidate, verdict>>

SpecJson == InitJson /\ [][SortJson \/ SortAgain]_vars

(***************************************************************************)
(* SpecValidate: validate_ip on its own, for both families, on texts in    *)
(* dotted form (three to five octets), in colon form (up to nine groups    *)
(* before and four after a "::" that is there or not, with or without a    *)
(* dotted last part), and on a host name, each with up to MaxPad blanks,   *)
(* a newline or a tab before and after.  ValidOctetTexts and               *)
(* ValidGroupTexts are the octets and groups of the candidates that a      *)
(* literal may have.                                                       *)
(***************************************************************************)
ValidOctetTexts == {<<"1">>, <<"1", "6", "8">>, <<"1", "9", "2">>}
ValidGroupTexts == {<<"1">>, <<"d", "b", "8">>, <<"F", "f", "f", "f">>}

Candidates(m) ==
    LET octetTexts == ValidOctetTexts \cup {<<"2", "5", "6">>, <<"0", "1">>, <<>>}
        groupTexts == ValidGroupTexts \cup {<<"1", "2", "3", "4", "5">>, <<"g">>}
        pads == SeqsUpTo({" "}, m) \cup {<<"\n">>, <<"\t">>}
        v4 == {Candidate("v4", <<>>, <<>>, os, 0, 0, <<>>, FALSE, FALSE) :
                    os \in [1..4 -> octetTexts]
                            \cup {[i \in 1..n |-> <<"1">>] : n \in {3, 5}}}
        v6 == {Candidate("v6", <<>>, <<>>, <<>>, h, t, g, c, d) :
                    h \in 0..9, t \in 0..4, g \in groupTexts,
                    c \in BOOLEAN, d \in BOOLEAN}
        bare == v4 \cup {x \in v6 : x.compressed \/ x.nHead + x.nTail > 0}
                   \cup {NoCandidate}
    IN  {[x EXCEPT !.lead = l, !.trail = t] : x \in bare, l \in pads, t \in pads}

\* the text of a candidate
CandidateText(c) ==
    LET groups(n) == [i \in 1..n |-> c.group]
        dotted == <<"1", "9", "2", ".", "0", ".", "2", ".", "1">>
        last == groups(c.nTail) \o (IF c.v4tail THEN <<dotted>> ELSE <<>>)
        mid == IF c.compressed THEN <<":", ":">>
               ELSE IF c.nHead > 0 /\ last # <<>> THEN <<":">>
               ELSE <<>>
        body == CASE c.kind = "v4" -> Join(c.octets, <<".">>)
                  [] c.kind = "v6" ->
                        Join(groups(c.nHead), <<":">>) \o mid \o Join(last, <<":">>)
                  [] OTHER -> HOSTNAME
    IN  c.lead \o body \o c.trail

InitValidate ==
    /\ InitWith(UnreadableTable, RunUrls, [f \in Families |-> IdleRace], "off", "off")
    /\ candidate \in Candidates(MaxPad)
    /\ InitRest(RunTzEnv, NoJson, candidate)

\* validate_ip(ip, false) and validate_ip(ip, true)
Validate ==
    /\ ~verdict.some
    /\ verdict' = Some([f \in Families |->
                            validate_ip(CandidateText(candidate), IsIpv6(f))])
    /\ UNCHANGED <<run_vars, json, candidate>>

SpecValidate == InitValidate /\ [][Validate]_vars

(***************************************************************************)
(* SpecTimezone: get_timezone on its own, in every environment of TzEnvs.  *)
(***************************************************************************)
InitTimezone ==
    /\ InitWith(UnreadableTable, RunUrls, [f \in Families |-> IdleRace], "off", "off")
    /\ tz_env \in TzEnvs
    /\ InitRest(tz_env, NoJson, NoCandidate)

SpecTimezone == InitTimezone /\ [][TaskEnd("timezone", "ok")]_vars

(***************************************************************************)
(* What the claims speak of.                                               *)
(***************************************************************************)
Returned(f) == race[f].state = "returned"
Sources(f) == 1..Len(race[f].att)
\* the network has answered the request of source i
Arrived(f, i) == race[f].att[i].resp.kind # "none"
\* the Result of source i, once its response has arrived
ResultOf(f, i) == fetch_ip_from_url(urls[f][i], IsIpv6(f), race[f].att[i].resp)
\* the response of source i has arrived and is a valid literal of the family
ValidSource(f, i) == Arrived(f, i) /\ ResultOf(f, i).ok
\* requests.next() yielded the Result of source i
Consumed(f, i) == race[f].att[i].st = "consumed"

\* text split at every separator token
RECURSIVE SplitAt(_, _)
SplitAt(s, sep) ==
    IF \E k \in 1..Len(s) : s[k] = sep
    THEN LET k == CHOOSE k \in 1..Len(s) :
                      s[k] = sep /\ \A j \in 1..(k - 1) : s[j] # sep
         IN  <<SubSeq(s, 1, k - 1)>> \o SplitAt(SubSeq(s, k + 1, Len(s)), sep)
    ELSE <<s>>

\* needle is a substring of hay
Contains(hay, needle) ==
    \E k \in 0..(Len(hay) - Len(needle)) :
        SubSeq(hay, k + 1, k + Len(needle)) = needle

(***************************************************************************)
(* C1 as stated: whenever get_ip has returned and the response of a source *)
(* w arrived and is a valid literal of the family, the address returned is *)
(* the value of w (stated for the lists that name no source twice).        *)
(***************************************************************************)
DistinctSources(f) ==
    \A a, b \in 1..Len(urls[f]) : urls[f][a] = urls[f][b] => a = b

C1_AnyValidSourceWins ==
    \A f \in Families : \A w \in Sources(f) :
        (Returned(f) /\ DistinctSources(f) /\ ValidSource(f, w))
            => race[f].result.address = Some(ResultOf(f, w).val)

(***************************************************************************)
(* C1 amended: whenever get_ip has returned and the response of a source w *)
(* arrived and is a valid literal, the address returned is the value of    *)
(* the first source that requests.next() yielded with a valid literal (the *)
(* last one yielded; all before it failed), and no error is returned; it   *)
(* is the value of w when no other source's response that arrived is a     *)
(* valid literal of another value, wherever w stands in the list and in    *)
(* whatever order the sources completed.                                   *)
(***************************************************************************)
C1_FirstValidSourceWins ==
    \A f \in Families : \A w \in Sources(f) :
        (Returned(f) /\ ValidSource(f, w)) =>
            LET done == race[f].done
                v == done[Len(done)]
            IN  /\ done # <<>>
                /\ ResultOf(f, v).ok
                /\ \A k \in 1..(Len(done) - 1) : ~ResultOf(f, done[k]).ok
                /\ race[f].result = FamilyResult(Some(ResultOf(f, v).val), None)
                /\ (\A u \in Sources(f) :
                        ValidSource(f, u) => ResultOf(f, u).val = ResultOf(f, w).val)
                    => race[f].result.address = Some(ResultOf(f, w).val)

\* the second of two sources wins after the first one failed, and its body
\* had to be trimmed
C1_Witness ==
    \E f \in Families :
        /\ Returned(f)
        /\ Len(urls[f]) = 2
        /\ race[f].done = <<1, 2>>
        /\ ValidSource(f, 2)
        /\ race[f].att[2].resp.text # ResultOf(f, 2).val
        /\ race[f].result.address = Some(ResultOf(f, 2).val)

(***************************************************************************)
(* C2: when get_ip has returned after every attempt of a non-empty list    *)
(* failed, the address is none and the error, cut at the separators, is    *)
(* the diagnostics of the sources, one for one (each source's diagnostic   *)
(* once); every diagnostic is a substring of the error.                    *)
(***************************************************************************)
AllFailed(f) ==
    /\ Returned(f)
    /\ urls[f] # <<>>
    /\ \A i \in Sources(f) : Consumed(f, i) /\ ~ResultOf(f, i).ok

C2_AllFailuresReported ==
    \A f \in Families :
        AllFailed(f) =>
            /\ race[f].result.address = None
            /\ race[f].result.error.some
            /\ LET parts == SplitAt(race[f].result.error.val, SEPARATOR[1])
                   n == Len(urls[f])
               IN  /\ Len(parts) = n
                   /\ \E p \in [1..n -> 1..n] :
                        /\ \A a, b \in 1..n : p[a] = p[b] => a = b
                        /\ \A k \in 1..n : parts[k] = ResultOf(f, p[k]).val
                   /\ \A i \in 1..n :
                        Contains(race[f].result.error.val, ResultOf(f, i).val)

\* two sources failed in two ways, the second before the first
C2_Witness ==
    \E f \in Families :
        /\ AllFailed(f)
        /\ race[f].done = <<2, 1>>
        /\ race[f].att[1].resp.kind = "timeout"
        /\ race[f].att[2].resp.kind = "body"

(***************************************************************************)
(* C8 as stated: get_ip on an empty list returns at once, with no address, *)
(* the message "no sources configured" and no request.                     *)
(***************************************************************************)
NO_SOURCES_CONFIGURED == <<"no sources configured">>
Called(f) == race[f].state \notin {"idle", "called", "skipped"}

C8_NoSourcesMessage ==
    \A f \in Families :
        (Called(f) /\ urls[f] = <<>>) =>
            /\ Returned(f)
            /\ race[f].att = <<>>
            /\ race[f].result = FamilyResult(None, Some(NO_SOURCES_CONFIGURED))

(***************************************************************************)
(* C8 amended: get_ip on an empty list returns at once (it is never in its *)
(* loop), with no address, no request issued, and the fixed message "All   *)
(* requests failed with unknown errors".                                   *)
(***************************************************************************)
C8_EmptyListFailsAtOnce ==
    \A f \in Families :
        (Called(f) /\ urls[f] = <<>>) =>
            /\ Returned(f)
            /\ race[f].att = <<>>
            /\ race[f].done = <<>>
            /\ race[f].result =
                 FamilyResult(None, Some(<<"All requests failed with unknown errors">>))

C8_Witness == \E f \in Families : Called(f) /\ urls[f] = <<>> /\ Returned(f)

(***************************************************************************)
(* The fields of the line printed.                                         *)
(***************************************************************************)
Printed == stdout # <<>>
IpFields == Get(stdout[1], K_ip)
\* public_ip / public_ipv6: the text of the field
AddressField(f) ==
    Get(IpFields, IF IsIpv6(f) THEN K_public_ipv6 ELSE K_public_ip).v
\* error_ipv4 / error_ipv6: is the field a string (and not null)
ErrorPresent(f) ==
    Get(IpFields, IF IsIpv6(f) THEN K_error_ipv6 ELSE K_error_ipv4).t = "string"
\* failed_ipv4 / failed_ipv6
FailedField(f) ==
    Get(IpFields, IF IsIpv6(f) THEN K_failed_ipv6 ELSE K_failed_ipv4).v[1]
Probed == ip_pc # "probe"

(***************************************************************************)
(* C3 as stated: in the line printed, for IPv4 and for IPv6, exactly one   *)
(* of the address and the error is there.                                  *)
(***************************************************************************)
C3_ExactlyOneForBothFamilies ==
    Printed =>
        \A f \in Families : (AddressField(f) # <<>>) # ErrorPresent(f)

(***************************************************************************)
(* C3 amended: in the line printed exactly one of the address and the      *)
(* error is there for IPv4, and for IPv6 when the probe found IPv6 (its    *)
(* race was run); when the probe found none, the IPv6 address is empty and *)
(* the IPv6 error absent.                                                  *)
(***************************************************************************)
C3_ExactlyOneWhenRaced ==
    Printed =>
        /\ (AddressField("v4") # <<>>) # ErrorPresent("v4")
        /\ probe.present => ((AddressField("v6") # <<>>) # ErrorPresent("v6"))
        /\ ~probe.present => (AddressField("v6") = <<>> /\ ~ErrorPresent("v6"))

\* IPv4 resolved after a first failure, the IPv6 race run and failed
C3_Witness ==
    /\ Printed
    /\ probe.present
    /\ race["v4"].errors # <<>>
    /\ AddressField("v4") # <<>>
    /\ AddressField("v6") = <<>>
    /\ ErrorPresent("v6")

(***************************************************************************)
(* C4: once the probe has reported IPv6 absent, no IPv6 request is ever    *)
(* issued (get_ip is not called for IPv6), the IPv6 result is (none, none) *)
(* and the line printed has an empty public_ipv6, no error_ipv6 and        *)
(* failed_ipv6 = true.                                                     *)
(***************************************************************************)
C4_NoIpv6WithoutCapability ==
    (Probed /\ ~probe.present) =>
        /\ race["v6"].state \in {"idle", "skipped"}
        /\ race["v6"].att = <<>>
        /\ race["v6"].result = FamilyResult(None, None)
        /\ ip_pc = "racing" => race["v6"].state = "skipped"
        /\ Printed =>
            /\ AddressField("v6") = <<>>
            /\ ~ErrorPresent("v6")
            /\ FailedField("v6") = TRUE

\* a line printed with the table readable and no global address in it
C4_Witness ==
    /\ Printed
    /\ if_inet6.ok
    /\ ~probe.present
    /\ FailedField("v6") = TRUE
    /\ AddressField("v4") # <<>>

(***************************************************************************)
(* C5: no request is issued before ip_future starts its races; from then   *)
(* on the IPv4 race is on (or has returned) with one request per source,   *)
(* whatever the probe said, and the IPv6 race is on (or has returned) with *)
(* one request per source if and only if the probe reported IPv6 present.  *)
(* Both are started in one step: when IPv6 is present, no request of one   *)
(* family is answered, and neither race returns, before the requests of    *)
(* the other family are out.                                               *)
(***************************************************************************)
Racing(f) ==
    /\ race[f].state \in {"racing", "returned"}
    /\ Len(race[f].att) = Len(urls[f])

C5_FamiliesRacedConcurrently ==
    /\ ip_pc # "racing" => \A f \in Families : race[f] = IdleRace
    /\ ip_pc = "racing" =>
        /\ Racing("v4")
        /\ Racing("v6") <=> probe.present
        /\ ~probe.present => race["v6"].state = "skipped"
    /\ \A f, g \in Families :
        (/\ Probed /\ probe.present
         /\ \/ race[f].state = "returned"
            \/ \E i \in Sources(f) : race[f].att[i].st # "inflight")
            => Racing(g)

\* the IPv6 race has returned while both requests of IPv4 are still out
C5_Witness ==
    /\ probe.present
    /\ race["v6"].state = "returned"
    /\ race["v4"].state = "racing"
    /\ \A i \in Sources("v4") : race["v4"].att[i].st = "inflight"

(***************************************************************************)
(* C6: main is past its join, a line is printed or the process has ended   *)
(* only when ip_future has its result (every race it started has returned) *)
(* and the three lookups have ended.                                       *)
(***************************************************************************)
C6_PrintAfterAllBranches ==
    (pc # "join" \/ Printed \/ exit # "running") =>
        /\ IpFutureDone
        /\ \A f \in Families :
              race[f].state = "returned" \/ (IsIpv6(f) /\ ~probe.present)
        /\ \A t \in Tasks : task[t] # "running"

\* a line printed after both races were run
C6_Witness ==
    /\ Printed
    /\ pc = "printed"
    /\ \A f \in Families : race[f].state = "returned"

(***************************************************************************)
(* C7: once main has ended, it has failed if and only if a lookup failed;  *)
(* a run that failed printed nothing, and a run in which no lookup failed  *)
(* printed its line and succeeded, whatever became of the requests.        *)
(***************************************************************************)
C7_OnlyLookupsAbort ==
    /\ exit = "running" => ~Printed
    /\ exit # "running" =>
        /\ exit = "failure" <=> \E t \in Tasks : task[t] = "io_err"
        /\ exit = "failure" => ~Printed
        /\ exit = "success" => Len(stdout) = 1

\* a run that succeeded although every request of both families failed
C7_Witness ==
    /\ exit = "success"
    /\ \A f \in Families :
        /\ Len(race[f].errors) = Len(urls[f])
        /\ ~race[f].result.address.some
        /\ race[f].result.error.some

(***************************************************************************)
(* C9: in the line printed, for each family, failed is true if and only if *)
(* get_ip returned no address (or was not called), the address field is    *)
(* empty exactly when failed is true and is the address returned           *)
(* otherwise, and the error is absent when an address was returned.        *)
(***************************************************************************)
C9_FailedFlagAndAddress ==
    Printed =>
        \A f \in Families :
            /\ FailedField(f) = TRUE <=> ~race[f].result.address.some
            /\ AddressField(f) = <<>> <=> FailedField(f) = TRUE
            /\ race[f].result.address.some =>
                /\ AddressField(f) = race[f].result.address.val
                /\ ~ErrorPresent(f)

\* IPv4 failed and IPv6 resolved
C9_Witness ==
    /\ Printed
    /\ FailedField("v4") = TRUE
    /\ FailedField("v6") = FALSE
    /\ AddressField("v6") = IP6_A

(***************************************************************************)
(* C10: on a readable table the probe reports IPv6 present if and only if  *)
(* some line of the table has at least six fields and "00" as its fourth.  *)
(***************************************************************************)
HasGlobalLine(t) ==
    \E i \in 1..Len(t.lines) : t.lines[i].n >= 6 /\ t.lines[i].k = 4

C10_GlobalScopeInFourthField ==
    (Probed /\ table.readable) =>
        /\ probe.error = None
        /\ probe.present <=> HasGlobalLine(table)

\* found on the second line, after a line of five fields with "00" fourth
C10_Witness ==
    /\ Probed
    /\ table.readable
    /\ Len(table.lines) = 2
    /\ table.lines[1] = [n |-> 5, k |-> 4]
    /\ table.lines[2] = [n |-> 6, k |-> 4]
    /\ table.style = "dos"
    /\ probe.present

(***************************************************************************)
(* C11: when /proc/net/if_inet6 could not be read the probe says "not      *)
(* present" with the diagnostic of the read; get_ip is not called for IPv6 *)
(* and nothing of IPv6 is in flight; the run ends as the lookups alone     *)
(* decide (it prints when they all ended well); the line printed has the   *)
(* diagnostic in ipv6_check_error, no error_ipv6 and no IPv6 address.      *)
(* When the file could be read, ipv6_check_error is absent.                *)
(***************************************************************************)
READ_FAILURE == <<"Error checking IPv6: ">> \o if_inet6.err
CheckErrorField == Get(IpFields, K_ipv6_check_error)

C11_UnreadableTableIsReported ==
    /\ (Probed /\ ~if_inet6.ok) =>
            /\ probe = [present |-> FALSE, error |-> Some(READ_FAILURE)]
            /\ race["v6"].state \in {"idle", "skipped"}
            /\ race["v6"].att = <<>>
            /\ pc \in {"printed", "failed"} =>
                    (pc = "printed" <=> \A t \in Tasks : task[t] = "ok")
            /\ Printed =>
                    /\ exit = "success"
                    /\ CheckErrorField = JString(READ_FAILURE)
                    /\ ~ErrorPresent("v6")
                    /\ AddressField("v6") = <<>>
    /\ (Probed /\ if_inet6.ok) =>
            /\ probe.error = None
            /\ Printed => CheckErrorField = JNull

\* a run with an unreadable table has printed, with the IPv4 address
C11_Witness ==
    /\ ~if_inet6.ok
    /\ Printed
    /\ CheckErrorField.t = "string"
    /\ AddressField("v4") # <<>>
    /\ race["v6"].state = "skipped"

(***************************************************************************)
(* C12: sort_json_value applied to what it returned returns the same       *)
(* value; and a value and the same value with the keys of its objects      *)
(* inserted in another order, at whatever depth, are given the same value  *)
(* by sort_json_value, with the same text when serialized.                 *)
(***************************************************************************)
C12_OneNormalForm ==
    /\ json.again.some => json.again = json.out
    /\ json.out.some =>
            /\ json.out_twin = json.out
            /\ to_string(json.out_twin.val) = to_string(json.out.val)

\* the value of the test and its twin with the objects below the top
\* reversed: two texts before, one after, and the second pass was made
C12_Witness ==
    /\ json.orig = TEST_VALUE
    /\ json.twin = Reorder(TEST_VALUE, "reverse_nested")
    /\ to_string(json.twin) # to_string(json.orig)
    /\ json.again.some
    /\ json.out.val # json.orig
    /\ to_string(json.out_twin.val) = to_string(json.again.val)

(***************************************************************************)
(* C13: in what sort_json_value returns, the keys of every object, at      *)
(* every depth and within arrays, stand in ascending lexicographic order;  *)
(* and it has what the value had: an object has the same keys, as many,    *)
(* each with what its value had; an array has as many elements, each in    *)
(* its place; a scalar is the same.                                        *)
(***************************************************************************)
\* a < b, by the first place where they differ
LexLess(a, b) ==
    \E k \in 1..Len(b) :
        /\ \A j \in 1..(k - 1) : j <= Len(a) /\ a[j] = b[j]
        /\ \/ k = Len(a) + 1
           \/ k <= Len(a) /\ CharRank(a[k]) < CharRank(b[k])

RECURSIVE KeysAscending(_)
KeysAscending(value) ==
    CASE value.t = "object" ->
            /\ \A i \in 1..(Len(value.v) - 1) :
                    LexLess(value.v[i].key, value.v[i + 1].key)
            /\ \A i \in 1..Len(value.v) : KeysAscending(value.v[i].value)
      [] value.t = "array" -> \A i \in 1..Len(value.v) : KeysAscending(value.v[i])
      [] OTHER -> TRUE

RECURSIVE SameContent(_, _)
SameContent(a, b) ==
    /\ a.t = b.t
    /\ CASE a.t = "object" ->
                /\ Len(a.v) = Len(b.v)
                /\ \A i \in 1..Len(a.v) : \E j \in 1..Len(b.v) :
                        /\ b.v[j].key = a.v[i].key
                        /\ SameContent(a.v[i].value, b.v[j].value)
         [] a.t = "array" ->
                /\ Len(a.v) = Len(b.v)
                /\ \A i \in 1..Len(a.v) : SameContent(a.v[i], b.v[i])
         [] OTHER -> a = b

C13_SortedAtEveryDepth ==
    json.out.some =>
        /\ KeysAscending(json.out.val)
        /\ SameContent(json.orig, json.out.val)

\* the test of the source: its value gives its text
TEST_TEXT ==
    <<"{", "\"", "a", "\"", ":", "{", "\"", "b", "\"", ":", "3", ",", "\"",
      "d", "\"", ":", "2", "}", ",", "\"", "m", "\"", ":", "[", "{", "\"",
      "c", "\"", ":", "2", ",", "\"", "k", "\"", ":", "1", "}", "]", ",",
      "\"", "z", "\"", ":", "1", "}">>
C13_Witness ==
    /\ json.orig = TEST_VALUE
    /\ ~KeysAscending(json.orig)
    /\ json.out.some
    /\ to_string(json.out.val) = TEST_TEXT

(***************************************************************************)
(* C14: validate_ip gives an answer for every text, and the answer is true *)
(* exactly for the literals of the family asked for: four octets without a *)
(* leading zero and at most 255 between dots for IPv4; for IPv6 eight      *)
(* groups of one to four hex digits between colons, or fewer with one      *)
(* "::", the last two groups in dotted form or not.  A literal of the      *)
(* other family, a host name, and a literal with whitespace before or      *)
(* after it are rejected.                                                  *)
(***************************************************************************)
IsLiteral(c, f) ==
    /\ c.lead = <<>>
    /\ c.trail = <<>>
    /\ IF IsIpv6(f)
       THEN /\ c.kind = "v6"
            /\ c.nHead + c.nTail > 0 => c.group \in ValidGroupTexts
            /\ LET n == c.nHead + c.nTail + (IF c.v4tail THEN 2 ELSE 0)
               IN  IF c.compressed THEN n <= 7 ELSE n = 8
       ELSE /\ c.kind = "v4"
            /\ Len(c.octets) = 4
            /\ \A i \in 1..Len(c.octets) : c.octets[i] \in ValidOctetTexts

C14_OnlyLiteralsOfTheFamily ==
    verdict.some =>
        /\ \A f \in Families :
                /\ verdict.val[f] \in BOOLEAN
                /\ verdict.val[f] <=> IsLiteral(candidate, f)
        /\ CandidateText(candidate) = <<"1", "9", "2", ".", "1", "6", "8", ".", "1", ".", "1">>
                => verdict.val["v4"] /\ ~verdict.val["v6"]
        /\ CandidateText(candidate) = <<":", ":", "1">>
                => verdict.val["v6"] /\ ~verdict.val["v4"]
        /\ CandidateText(candidate) = HOSTNAME
                => ~verdict.val["v4"] /\ ~verdict.val["v6"]
        /\ candidate.lead \o candidate.trail # <<>>
                => ~verdict.val["v4"] /\ ~verdict.val["v6"]

\* "::1" with a newline after it was rejected for both families
C14_Witness ==
    /\ verdict.some
    /\ CandidateText(candidate) = <<":", ":", "1", "\n">>
    /\ validate_ip(Trim(CandidateText(candidate)), TRUE)
    /\ \A f \in Families : ~verdict.val[f]

(***************************************************************************)
(* C20 as stated: get_timezone always returns, and what it returns is the  *)
(* variable TZ when it is set, as it is; else the trimmed content of       *)
(* /etc/timezone when that was read and is not blank; else what follows    *)
(* "zoneinfo/" in the target of the link /etc/localtime when that is there *)
(* and not blank; else "Etc/UTC".                                          *)
(***************************************************************************)
TzFileText == Trim(tz_env.etc_timezone.content)
TzFromFile == tz_env.etc_timezone.ok /\ TzFileText # <<>>
TzLinkRest == tz_env.localtime.val.rest
TzFromLink ==
    /\ tz_env.localtime.some
    /\ tz_env.localtime.val.marker
    /\ Trim(TzLinkRest) # <<>>

C20_TzWheneverSet ==
    /\ task["timezone"] # "running" => task["timezone"] = "ok" /\ timezone.some
    /\ timezone.some =>
            timezone.val.timezone =
                IF tz_env.TZ.some THEN tz_env.TZ.val
                ELSE IF TzFromFile THEN TzFileText
                ELSE IF TzFromLink THEN TzLinkRest
                ELSE ETC_UTC

(***************************************************************************)
(* C20 amended: get_timezone always returns, and what it returns is the    *)
(* variable TZ when it is set to valid Unicode, as it is (empty or blank   *)
(* too); else the trimmed content of /etc/timezone when that was read and  *)
(* is not blank; else, trimmed, what follows the first "zoneinfo/" in the  *)
(* target of the link /etc/localtime when that is there and not blank;     *)
(* else "Etc/UTC".  It reads the sources in this order and none after the  *)
(* one that gave the value.                                                *)
(***************************************************************************)
TzUnicode ==
    /\ tz_env.TZ.some
    /\ \A k \in 1..Len(tz_env.TZ.val) : tz_env.TZ.val[k] # INVALID_BYTE

C20_PrecedenceOfSources ==
    /\ task["timezone"] # "running" => task["timezone"] = "ok" /\ timezone.some
    /\ timezone.some =>
            timezone.val =
                IF TzUnicode
                THEN [timezone |-> tz_env.TZ.val, reads |-> <<"TZ">>]
                ELSE IF TzFromFile
                THEN [timezone |-> TzFileText,
                      reads |-> <<"TZ", "/etc/timezone">>]
                ELSE [timezone |-> IF TzFromLink THEN Trim(TzLinkRest) ELSE ETC_UTC,
                      reads |-> <<"TZ", "/etc/timezone", "/etc/localtime">>]

\* TZ is not valid Unicode and /etc/timezone is blank: the value is that of
\* the link, trimmed
C20_Witness ==
    /\ tz_env.TZ = Some(<<INVALID_BYTE>>)
    /\ tz_env.etc_timezone.ok
    /\ ~TzFromFile
    /\ TzFromLink
    /\ timezone.some
    /\ timezone.val.timezone = ETC_UTC
    /\ TzLinkRest # ETC_UTC

(***************************************************************************)
(* C15: the turn of the loop in which requests.next() yields a valid       *)
(* address ends the call: get_ip has returned that address and no error,   *)
(* whatever errors it had gathered; every attempt not yet yielded is       *)
(* dropped, its outcome never taken; and once get_ip has returned, no      *)
(* later step changes anything of the call.                                *)
(***************************************************************************)
\* requests.next() yields the Result of attempt i of family f in this step
Yields(f, i) ==
    /\ i \in Sources(f)
    /\ race[f].att[i].st = "ready"
    /\ race'[f].att[i].st = "consumed"

C15_FirstSuccessEndsTheRace ==
    [][\A f \in Families :
        /\ \A i \in 1..Len(urls[f]) :
                (Yields(f, i) /\ ResultOf(f, i).ok) =>
                    /\ race'[f].state = "returned"
                    /\ race'[f].result = FamilyResult(Some(ResultOf(f, i).val), None)
                    /\ \A j \in Sources(f) \ {i} :
                            /\ race'[f].att[j].st = "consumed"
                                    <=> race[f].att[j].st = "consumed"
                            /\ race'[f].att[j].st \in {"consumed", "dropped"}
                    /\ race'[f].errors = race[f].errors
        /\ Returned(f) => race'[f] = race[f]
      ]_vars

\* the first of two IPv4 sources answered 500, the second a valid address:
\* that address, no error, one diagnostic gathered and left behind
C15_Witness ==
    /\ urls["v4"] = IPV4_URLS
    /\ Returned("v4")
    /\ race["v4"].done = <<1, 2>>
    /\ race["v4"].att[1].resp = HttpStatus500
    /\ race["v4"].att[2].resp = Body(IP4_A)
    /\ race["v4"].errors # <<>>
    /\ race["v4"].result = FamilyResult(Some(IP4_A), None)

(***************************************************************************)
(* C16: an attempt whose timer fired fails with the diagnostic "Timeout    *)
(* after 3s for <url>", which names its source and is not the diagnostic   *)
(* of any other way to fail at that source; it is gathered like the others *)
(* when the attempt is yielded.  The step that yields it leaves every      *)
(* other attempt as it was, in flight or ready, and get_ip stays in the    *)
(* loop while another attempt has not been yielded.                        *)
(***************************************************************************)
TimedOut(f, i) == race[f].att[i].resp.kind = "timeout"
TimeoutDiagnostic(url) == <<"Timeout after ", "3", "s for ", url>>

C16_TimeoutCancelsOneAttempt ==
    /\ [](\A f \in Families : \A i \in Sources(f) :
            TimedOut(f, i) =>
                /\ ResultOf(f, i) = Err(TimeoutDiagnostic(urls[f][i]))
                /\ \A r \in RaceResponses \ {TimerFired} :
                        fetch_ip_from_url(urls[f][i], IsIpv6(f), r) # ResultOf(f, i)
                /\ Consumed(f, i) =>
                        \E k \in 1..Len(race[f].errors) :
                            race[f].errors[k] = TimeoutDiagnostic(urls[f][i]))
    /\ [][\A f \in Families : \A i \in 1..Len(urls[f]) :
            (Yields(f, i) /\ TimedOut(f, i)) =>
                /\ \A j \in Sources(f) \ {i} : race'[f].att[j] = race[f].att[j]
                /\ (\E j \in Sources(f) \ {i} : ~Consumed(f, j))
                        => race'[f].state = "racing"
      ]_vars

\* the first source timed out and was yielded first; the second one won
C16_Witness ==
    \E f \in Families :
        /\ Returned(f)
        /\ race[f].done = <<1, 2>>
        /\ TimedOut(f, 1)
        /\ Consumed(f, 1)
        /\ race[f].result.address = Some(ResultOf(f, 2).val)

(***************************************************************************)
(* C18: the errors get_ip has gathered are the diagnostics of the attempts *)
(* in the order in which requests.next() yielded them; when all failed the *)
(* error returned is these, in that order, joined by "; ".                 *)
(***************************************************************************)
DiagnosticsAsYielded(f) ==
    [k \in 1..Len(race[f].done) |-> ResultOf(f, race[f].done[k]).val]
DiagnosticsAsDeclared(f) ==
    [i \in 1..Len(urls[f]) |-> ResultOf(f, i).val]

C18_ErrorsInCompletionOrder ==
    \A f \in Families :
        /\ (race[f].state = "racing" \/ AllFailed(f)) =>
                race[f].errors = DiagnosticsAsYielded(f)
        /\ AllFailed(f) =>
                /\ Len(race[f].done) = Len(urls[f])
                /\ race[f].result.error =
                        Some(Join(DiagnosticsAsYielded(f), SEPARATOR))

\* two different sources failed, the second one first: the error is not
\* the one of the order of the list
C18_Witness ==
    \E f \in Families :
        /\ AllFailed(f)
        /\ race[f].done = <<2, 1>>
        /\ urls[f][1] # urls[f][2]
        /\ race[f].result.error.val
                = ResultOf(f, 2).val \o SEPARATOR \o ResultOf(f, 1).val
        /\ race[f].result.error.val # Join(DiagnosticsAsDeclared(f), SEPARATOR)

(***************************************************************************)
(* C19: in the line printed, public_ip is empty or a text that validate_ip *)
(* accepts for IPv4, and public_ipv6 is empty or a text that validate_ip   *)
(* accepts for IPv6; the text has no whitespace around it, is the trimmed  *)
(* body that a source of that family answered and that get_ip was yielded, *)
(* and is not a literal of the other family.                               *)
(***************************************************************************)
C19_OnlyValidatedAddressesPrinted ==
    Printed =>
        \A f \in Families :
            LET ip == AddressField(f)
            IN  ip # <<>> =>
                    /\ validate_ip(ip, IsIpv6(f))
                    /\ ~validate_ip(ip, ~IsIpv6(f))
                    /\ Trim(ip) = ip
                    /\ \E i \in Sources(f) :
                            /\ Consumed(f, i)
                            /\ race[f].att[i].resp.kind = "body"
                            /\ Trim(race[f].att[i].resp.text) = ip

\* an IPv4 source answered an IPv6 literal and the other an IPv4 literal
\* with a newline: the line has the IPv4 literal without the newline
C19_Witness ==
    /\ Printed
    /\ \E i, j \in Sources("v4") :
            /\ race["v4"].att[i].resp = Body(IP6_A)
            /\ Consumed("v4", i)
            /\ race["v4"].att[j].resp = Body(IP4_B_RAW)
    /\ AddressField("v4") = IP4_B
    /\ AddressField("v6") = IP6_A

(***************************************************************************)
(* C17: a call of get_ip is in its loop for at most TIMEOUT seconds after  *)
(* it issued its requests, however many sources it has; and in the end     *)
(* every call that was made has returned and the run has come to the print *)
(* or to the return of a lookup's error.                                   *)
(***************************************************************************)
C17_EveryRaceReturnsInTime ==
    /\ [](\A f \in Families : race[f].state = "racing" => clock <= TIMEOUT)
    /\ <>(/\ pc \in {"printed", "failed"}
          /\ \A f \in Families : race[f].state \in {"returned", "skipped"})

\* both sources of a family timed out, the race returned at TIMEOUT and the
\* line was printed
C17_Witness ==
    /\ Printed
    /\ clock = TIMEOUT
    /\ AllFailed("v4")
    /\ Len(urls["v4"]) > 1
    /\ \A i \in Sources("v4") : race["v4"].att[i].resp.kind = "timeout"

=============================================================================
